---- MODULE Spec2Model ----
(***************************************************************************)
(* A model of src/app.py: the Streamlit session (upload of the two CSV     *)
(* reports, reload buttons, change-detected analysis run) and the          *)
(* merge / metrics pipeline of analyze_msn_data.                           *)
(*                                                                         *)
(* Tables are records [cols, rows]: cols is the header of the CSV file,    *)
(* rows a sequence of functions from column name to cell.  Optional values *)
(* (Python None) are sequences of length 0 or 1.  Floats are records       *)
(* [cls, num, den]: a finite rational num/den, NaN, +inf or -inf; rounding *)
(* of float32/float64 is not modelled.                                     *)
(***************************************************************************)
EXTENDS Integers, Sequences, FiniteSets, TLC

VARIABLES
    initialized,            \* 'initialized' in st.session_state
    inhaltsbericht_loaded,  \* st.session_state.inhaltsbericht_loaded
    seitenaufrufe_loaded,   \* st.session_state.seitenaufrufe_loaded
    inhaltsbericht_df,      \* st.session_state.inhaltsbericht_df (None = <<>>)
    seitenaufrufe_df,       \* st.session_state.seitenaufrufe_df  (None = <<>>)
    last_analysis,          \* st.session_state.last_analysis     (None = <<>>)
    result,                 \* st.session_state.result            (absent = <<>>)
    summary,                \* st.session_state.summary           (absent = <<>>)
    portal_stats,           \* st.session_state.portal_stats      (absent = <<>>)
    pc,                     \* position of the script run inside main()
    panel_rendered,         \* the reload buttons were drawn by the previous run
    shown,                  \* what handle_error has put on the page in this run
    load_calls,             \* the calls of load_data made in this run, with their outcome
    analysis_call,          \* the call of analyze_msn_data made in this run (none = <<>>)
    dashboard,              \* the arguments of create_dashboard in this run (none = <<>>)
    previous_pair           \* history: the tables the last reset_data_state removed

vars == <<initialized, inhaltsbericht_loaded, seitenaufrufe_loaded, inhaltsbericht_df,
          seitenaufrufe_df, last_analysis, result, summary, portal_stats, pc,
          panel_rendered, shown, load_calls, analysis_call, dashboard, previous_pair>>

session == <<inhaltsbericht_loaded, seitenaufrufe_loaded, inhaltsbericht_df,
             seitenaufrufe_df, last_analysis>>

cache == <<result, summary, portal_stats>>

(***************************************************************************)
(* Bounds of the model.                                                    *)
(***************************************************************************)
MaxCatRows == 2     \* rows of a catalog table drawn for the pipeline
MaxViewRows == 2    \* rows of a views table drawn for the pipeline
MaxLoadCalls == 2   \* calls of load_data in the specification of load_data alone

(***************************************************************************)
(* Generic helpers.                                                        *)
(***************************************************************************)
None == <<>>
Some(v) == <<v>>

SeqsUpTo(S, n) == UNION {[1..k -> S] : k \in 0..n}

Range(s) == {s[i] : i \in 1..Len(s)}

RECURSIVE SumSeq(_)
SumSeq(s) == IF s = <<>> THEN 0 ELSE Head(s) + SumSeq(Tail(s))

(***************************************************************************)
(* Floats.                                                                 *)
(***************************************************************************)
Fin(n, d) == [cls |-> "fin", num |-> n, den |-> d]
Num(n) == Fin(n, 1)
NaN == [cls |-> "nan", num |-> 0, den |-> 1]
PosInf == [cls |-> "inf", num |-> 1, den |-> 1]
NegInf == [cls |-> "inf", num |-> -1, den |-> 1]

IsNa(x) == x.cls = "nan"
IsFinite(x) == x.cls = "fin"

\* IEEE division x / y as numpy performs it on a Series
FloatDiv(x, y) ==
    IF IsNa(x) \/ IsNa(y) THEN NaN
    ELSE IF ~IsFinite(x) THEN (IF IsFinite(y) THEN (IF y.num < 0 THEN [x EXCEPT !.num = -x.num] ELSE x) ELSE NaN)
    ELSE IF ~IsFinite(y) THEN Num(0)
    ELSE IF y.num = 0 THEN (IF x.num = 0 THEN NaN ELSE IF x.num > 0 THEN PosInf ELSE NegInf)
    ELSE IF y.num > 0 THEN Fin(x.num * y.den, x.den * y.num)
    ELSE Fin(-(x.num * y.den), -(x.den * y.num))

FloatMul(x, k) ==
    IF IsFinite(x) THEN Fin(x.num * k, x.den) ELSE x

FloatAdd(x, y) ==
    IF IsNa(x) \/ IsNa(y) THEN NaN
    ELSE IF ~IsFinite(x) /\ ~IsFinite(y) THEN (IF x.num = y.num THEN x ELSE NaN)
    ELSE IF ~IsFinite(x) THEN x
    ELSE IF ~IsFinite(y) THEN y
    ELSE Fin(x.num * y.den + y.num * x.den, x.den * y.den)

\* x < y for finite floats with positive denominators
FloatLess(x, y) == x.num * y.den < y.num * x.den

FloatIsZero(x) == IsFinite(x) /\ x.num = 0

(***************************************************************************)
(* Exceptions.  type is the class name, text and cols the message (cols:   *)
(* the column names the message lists), context the class of the exception *)
(* that was being handled when this one was raised (Python's __context__). *)
(***************************************************************************)
Exc(type, text, cols, context) ==
    [type |-> type, text |-> text, cols |-> cols, context |-> context]

\* the classes of lines 14-24 and their bases
Bases(type) ==
    CASE type = "FileLoadError" -> {"FileLoadError", "DataProcessingError", "Exception"}
      [] type = "DataValidationError" -> {"DataValidationError", "DataProcessingError", "Exception"}
      [] OTHER -> {type, "Exception"}

isinstance(e, classes) == Bases(e.type) \cap classes # {}

(***************************************************************************)
(* handle_error: the st.error line and, for some errors, st.exception.     *)
(***************************************************************************)
error_messages ==
    [FileLoadError |-> "Fehler beim Laden der Datei",
     DataValidationError |-> "Fehler bei der Datenvalidierung",
     ValueError |-> "Ungueltiger Wert",
     KeyError |-> "Erforderliches Feld nicht gefunden",
     Exception |-> "Ein unerwarteter Fehler ist aufgetreten"]

\* st.exception is called for every error but the two named ones
ShowsTrace(e) == ~isinstance(e, {"FileLoadError", "DataValidationError"})

handle_error(e) ==
    [base |-> IF e.type \in DOMAIN error_messages
              THEN error_messages[e.type] ELSE error_messages["Exception"],
     error |-> e,
     trace |-> ShowsTrace(e)]

(***************************************************************************)
(* Columns and cells.                                                      *)
(***************************************************************************)
ColDate == "Erstellungs-/Aktualisierungsdatum"

\* the columns of a complete Inhaltsbericht export
CatalogCols ==
    {"Markenname", "Dokument-ID", "Inhaltstitel", "Quell-ID", "Canonical URL",
     "Veroeffentlichte URL", "Inhaltsstatus", "Datum der Bearbeitung", ColDate}

\* the columns of a complete Seitenaufrufe export
ViewCols ==
    {"docID", "Titel", "Seitenaufrufe", "Eindeutige Benutzer", "Likes", "Kommentare"}

\* A text cell is [head, tail]: the part of the string a printed table shows and
\* the part it cuts off ("" when the string is short).
Text(s) == [head |-> s, tail |-> ""]
LongText(s, t) == [head |-> s, tail |-> t]

\* A date cell: a string in the format '%d.%m.%Y, %H:%M:%S' ("de"), a string in
\* another format ("iso"), or an empty cell ("nan").
DateDe(wday, h) == [fmt |-> "de", wday |-> wday, hour |-> h]
DateIso(wday, h) == [fmt |-> "iso", wday |-> wday, hour |-> h]
DateNaN == [fmt |-> "nan", wday |-> "", hour |-> 0]

CatRow(brand, id, title, date) ==
    [c \in CatalogCols |->
        CASE c = "Markenname" -> brand
          [] c = "Dokument-ID" -> id
          [] c = "Inhaltstitel" -> title
          [] c = ColDate -> date
          [] OTHER -> Text("x")]

ViewRow(id, title, views, users, likes, comments) ==
    [c \in ViewCols |->
        CASE c = "docID" -> id
          [] c = "Titel" -> title
          [] c = "Seitenaufrufe" -> views
          [] c = "Eindeutige Benutzer" -> users
          [] c = "Likes" -> likes
          [] c = "Kommentare" -> comments]

\* a row without the columns outside keep
Project(row, keep) == [c \in DOMAIN row \cap keep |-> row[c]]

\* A source handed to pd.read_csv.
TableFile(cols, rows) ==
    [kind |-> "table", cols |-> cols, rows |-> [i \in 1..Len(rows) |-> Project(rows[i], cols)]]
EmptyFile == [kind |-> "empty", cols |-> {}, rows |-> <<>>]
MalformedFile == [kind |-> "malformed", cols |-> {}, rows |-> <<>>]
UndecodableFile == [kind |-> "undecodable", cols |-> {}, rows |-> <<>>]

DataFrame(cols, rows) == [cols |-> cols, rows |-> rows]

(***************************************************************************)
(* load_data.  An outcome is [ok, df, exc].                                *)
(***************************************************************************)
NoExc == Exc("none", "", <<>>, "none")
Returned(v) == [ok |-> TRUE, val |-> Some(v), exc |-> NoExc]
Raised(e) == [ok |-> FALSE, val |-> None, exc |-> e]

required_columns ==
    [inhaltsbericht |-> <<"Markenname", "Dokument-ID", "Inhaltstitel">>,
     seitenaufrufe |-> <<"docID", "Seitenaufrufe">>]

\* pd.read_csv(uploaded_file, encoding='utf-8')
read_csv(file) ==
    CASE file.kind = "empty" -> Raised(Exc("EmptyDataError", "No columns to parse from file", <<>>, "none"))
      [] file.kind = "malformed" -> Raised(Exc("ParserError", "Error tokenizing data", <<>>, "none"))
      [] file.kind = "undecodable" -> Raised(Exc("UnicodeDecodeError", "invalid start byte", <<>>, "none"))
      [] OTHER -> Returned(DataFrame(file.cols, file.rows))

\* the body of the try block, lines 238-255
LoadBody(uploaded_file) ==
    IF uploaded_file = None
    THEN Raised(Exc("FileLoadError", "Keine Datei ausgewaehlt", <<>>, "none"))
    ELSE LET parsed == read_csv(uploaded_file[1]) IN
         IF ~parsed.ok THEN parsed
         ELSE LET df == parsed.val[1]
                  file_type == IF "Markenname" \in df.cols THEN "inhaltsbericht" ELSE "seitenaufrufe"
                  missing_cols == SelectSeq(required_columns[file_type], LAMBDA c : c \notin df.cols)
              IN IF missing_cols # <<>>
                 THEN Raised(Exc("DataValidationError", "Fehlende Spalten", missing_cols, "none"))
                 ELSE Returned(df)

\* the except clauses, lines 257-262, in their order
LoadHandlers(e) ==
    IF e.type = "EmptyDataError"
    THEN Exc("DataValidationError", "Die Datei enthaelt keine Daten", <<>>, e.type)
    ELSE IF e.type = "ParserError"
    THEN Exc("FileLoadError", "Fehler beim Parsen der CSV-Datei", e.cols, e.type)
    ELSE Exc("DataProcessingError", "Unerwarteter Fehler", e.cols, e.type)

load_data(uploaded_file) ==
    LET body == LoadBody(uploaded_file) IN
    IF body.ok THEN body ELSE Raised(LoadHandlers(body.exc))

(***************************************************************************)
(* DataFrameOptimizer.                                                     *)
(***************************************************************************)
Int8Max == 127
Int16Max == 32767

\* the integer type lines 112-118 pick for a column with these values
\* (32 stands for every type wider than 16 bits: no value of the model leaves it)
NarrowBits(values) ==
    IF \A v \in values : v > -Int8Max - 1 /\ v < Int8Max THEN 8
    ELSE IF \A v \in values : v > -Int16Max - 1 /\ v < Int16Max THEN 16
    ELSE 32

\* v as a two's complement integer of bits bits
Wrap(v, bits) ==
    CASE bits = 8 -> ((v + Int8Max + 1) % (2 * (Int8Max + 1))) - (Int8Max + 1)
      [] bits = 16 -> ((v + Int16Max + 1) % (2 * (Int16Max + 1))) - (Int16Max + 1)
      [] OTHER -> v

\* optimize_memory_usage keeps every value (narrowing is lossless, a category
\* keeps its strings); on a table without rows, line 107 divides 0 by 0 at the
\* first text column.  A table read from a CSV without data rows has only
\* object columns, and the merged table has the str-cast key column.
optimize_memory_usage(df) ==
    IF Len(df.rows) = 0 /\ df.cols # {}
    THEN Raised(Exc("ZeroDivisionError", "division by zero", <<>>, "none"))
    ELSE Returned(df)

is_unique(rows, col) ==
    \A i, j \in 1..Len(rows) : rows[i][col] = rows[j][col] => i = j

RECURSIVE Concat(_)
Concat(ss) == IF ss = <<>> THEN <<>> ELSE Head(ss) \o Concat(Tail(ss))

\* pd.merge(..., how='left'): for every left row, in order, one row per right row
\* with the same key, in order, or one row with empty right cells
LeftJoin(left, right, left_on, right_on, right_cols) ==
    Concat([i \in 1..Len(left) |->
        LET hits == SelectSeq(right, LAMBDA r : r[right_on] = left[i][left_on]) IN
        IF hits = <<>>
        THEN << [c \in DOMAIN left[i] \cup right_cols |->
                   IF c \in DOMAIN left[i] THEN left[i][c]
                   ELSE IF c = right_on THEN "NaN" ELSE NaN] >>
        ELSE [k \in 1..Len(hits) |->
                [c \in DOMAIN left[i] \cup right_cols |->
                   IF c \in DOMAIN left[i] THEN left[i][c]
                   ELSE IF c = right_on THEN hits[k][c] ELSE Num(hits[k][c])]]])

\* efficient_merge; df2 is the aggregated views table, whose cells besides the
\* key are numbers.  A frame whose key column was made its index as well
\* (lines 135-138) makes pd.merge raise: the key is both an index level and a
\* column label.
efficient_merge(df1, df2, left_on, right_on) ==
    IF ~is_unique(df1.rows, left_on) \/ ~is_unique(df2.rows, right_on)
    THEN Raised(Exc("ValueError", "is both an index level and a column label",
                    <<IF ~is_unique(df1.rows, left_on) THEN left_on ELSE right_on>>, "none"))
    ELSE LET merged == DataFrame(df1.cols \cup df2.cols,
                                 LeftJoin(df1.rows, df2.rows, left_on, right_on, df2.cols))
         IN optimize_memory_usage(merged)

(***************************************************************************)
(* Time analysis and metrics.                                              *)
(***************************************************************************)
\* pd.to_datetime(column, format='%d.%m.%Y, %H:%M:%S') with errors='raise':
\* TRUE when every cell is empty or matches the format
DatesParse(rows) == \A i \in 1..Len(rows) : rows[i][ColDate].fmt \in {"de", "nan"}

\* pd.cut(hour, bins=[0, 6, 12, 18, 24], labels=[...]): the bins are
\* (0, 6], (6, 12], (12, 18], (18, 24]
cut(hour) ==
    IF IsNa(hour) THEN "NaN"
    ELSE IF 0 < hour.num /\ hour.num <= 6 THEN "Nacht"
    ELSE IF 6 < hour.num /\ hour.num <= 12 THEN "Morgen"
    ELSE IF 12 < hour.num /\ hour.num <= 18 THEN "Mittag"
    ELSE IF 18 < hour.num /\ hour.num <= 24 THEN "Abend"
    ELSE "NaN"

Labels == <<"Nacht", "Morgen", "Mittag", "Abend">>

\* add_time_analysis on one row (the dates parse)
add_time_analysis(row) ==
    LET d == row[ColDate]
        Stunde == IF d.fmt = "de" THEN Num(d.hour) ELSE NaN
    IN [c \in DOMAIN row \cup {"Datum", "Wochentag", "Stunde", "Tageszeit"} |->
          CASE c = "Datum" -> IF d.fmt = "de" THEN [d EXCEPT !.fmt = "Timestamp"] ELSE [d EXCEPT !.fmt = "NaT"]
            [] c = "Wochentag" -> IF d.fmt = "de" THEN d.wday ELSE "NaN"
            [] c = "Stunde" -> Stunde
            [] c = "Tageszeit" -> cut(Stunde)
            [] OTHER -> row[c]]

fillna(x) == IF IsNa(x) THEN Num(0) ELSE x

\* a + b on two columns: integer columns add in the wider of their two types
\* and wrap around; float columns do not
ColumnAdd(a, b, bits) ==
    IF bits = 0 THEN FloatAdd(a, b) ELSE Num(Wrap(a.num + b.num, bits))

\* calculate_extended_metrics on one row; bits is the width of Likes +
\* Kommentare (0 for float columns)
calculate_extended_metrics(row, bits) ==
    [c \in DOMAIN row \cup {"Engagement_Rate", "Unique_Visitor_Rate"} |->
        CASE c = "Engagement_Rate" ->
               fillna(FloatMul(FloatDiv(ColumnAdd(row["Likes"], row["Kommentare"], bits),
                                        row["Seitenaufrufe"]), 100))
          [] c = "Unique_Visitor_Rate" ->
               fillna(FloatMul(FloatDiv(row["Eindeutige Benutzer"], row["Seitenaufrufe"]), 100))
          [] OTHER -> row[c]]

\* the type of a numeric column of the merged table after optimize_memory_usage:
\* float32 (0) when a cell is empty, the narrowest fitting integer type otherwise
ColumnBits(rows, col) ==
    IF \E i \in 1..Len(rows) : IsNa(rows[i][col]) THEN 0
    ELSE NarrowBits({rows[i][col].num : i \in 1..Len(rows)})

Max(a, b) == IF a >= b THEN a ELSE b

(***************************************************************************)
(* analyze_msn_data.                                                       *)
(***************************************************************************)
portale == <<"HNA", "24vita">>

agg_cols == <<"Seitenaufrufe", "Eindeutige Benutzer", "Likes", "Kommentare">>

result_columns ==
    <<"Markenname", "Dokument-ID", "Inhaltstitel", "Quell-ID", "Canonical URL",
      "Veroeffentlichte URL", "Inhaltsstatus", "Datum der Bearbeitung", ColDate,
      "Seitenaufrufe", "Eindeutige Benutzer", "Likes", "Kommentare">>

\* the document ids of the model, in the order groupby sorts its keys
IdOrder == <<"d1", "d2", "d3">>

\* .astype(str) on a key cell: the ids of the model are strings already
astype_str(v) == v

KeyError(cols) == Raised(Exc("KeyError", "not in index", cols, "none"))

Missing(wanted, cols) == SelectSeq(wanted, LAMBDA c : c \notin cols)

\* groupby_sum with .first() in the place of .sum(): the cells of the first row
\* of every group
groupby_first(rows) ==
    LET keys == SelectSeq(IdOrder, LAMBDA k : \E i \in 1..Len(rows) : astype_str(rows[i]["docID"]) = k)
    IN [n \in 1..Len(keys) |->
          LET group == SelectSeq(rows, LAMBDA r : astype_str(r["docID"]) = keys[n]) IN
          [c \in {"docID"} \cup Range(agg_cols) |->
              IF c = "docID" THEN keys[n] ELSE group[1][c]]]

\* seitenaufrufe_df.groupby('docID', observed=True)[agg_cols].sum().reset_index():
\* one row per key, keys sorted, the four columns summed, no other column kept
groupby_sum(rows) ==
    LET keys == SelectSeq(IdOrder, LAMBDA k : \E i \in 1..Len(rows) : astype_str(rows[i]["docID"]) = k)
    IN [n \in 1..Len(keys) |->
          LET group == SelectSeq(rows, LAMBDA r : astype_str(r["docID"]) = keys[n]) IN
          [c \in {"docID"} \cup Range(agg_cols) |->
              IF c = "docID" THEN keys[n]
              ELSE SumSeq([i \in 1..Len(group) |-> group[i][c]])]]

\* sort_values without ascending=False: every ascending arrangement of the rows
sort_values_ascending(rows) ==
    LET n == Len(rows)
        perms == {p \in [1..n -> 1..n] : \A i, j \in 1..n : p[i] = p[j] => i = j}
    IN {[i \in 1..n |-> rows[p[i]]] : p \in
          {q \in perms : \A i \in 1..n : \A j \in 1..n :
              i < j => ~FloatLess(rows[q[j]]["Seitenaufrufe"], rows[q[i]]["Seitenaufrufe"])}}

\* result.sort_values('Seitenaufrufe', ascending=False): the default sort kind is
\* quicksort, which does not keep the order of equal keys; every descending
\* arrangement of the rows is a possible outcome
sort_values(rows) ==
    LET n == Len(rows)
        perms == {p \in [1..n -> 1..n] : \A i, j \in 1..n : p[i] = p[j] => i = j}
    IN {[i \in 1..n |-> rows[p[i]]] : p \in
          {q \in perms : \A i \in 1..n : \A j \in 1..n :
              i < j => ~FloatLess(rows[q[i]]["Seitenaufrufe"], rows[q[j]]["Seitenaufrufe"])}}

RECURSIVE FloatTotal(_)
FloatTotal(s) == IF s = <<>> THEN Num(0) ELSE FloatAdd(Head(s), FloatTotal(Tail(s)))

\* Series.mean()
Mean(xs) == FloatDiv(FloatTotal(xs), Num(Len(xs)))

Column(rows, col) == [i \in 1..Len(rows) |-> rows[i][col]]

IntSum(rows, col) == SumSeq([i \in 1..Len(rows) |-> rows[i][col].num])

\* get_top_tageszeit: the first label, in the order of the categories, whose
\* rows have the highest mean of Seitenaufrufe; rows without a label are dropped
get_top_tageszeit(portal_data) ==
    IF portal_data = <<>> THEN "Keine Daten"
    ELSE LET InBucket(b) == SelectSeq(portal_data, LAMBDA r : r["Tageszeit"] = b)
             observed == SelectSeq(Labels, LAMBDA b : InBucket(b) # <<>>)
             stat(b) == Mean(Column(InBucket(b), "Seitenaufrufe"))
         IN IF observed = <<>> THEN "Keine Daten"
            ELSE LET best == CHOOSE k \in 1..Len(observed) :
                        /\ \A j \in 1..Len(observed) : ~FloatLess(stat(observed[k]), stat(observed[j]))
                        /\ \A j \in 1..(k - 1) : FloatLess(stat(observed[j]), stat(observed[k]))
                 IN observed[best]

PortalStats(rows) ==
    [portal \in Range(portale) |->
        LET portal_data == SelectSeq(rows, LAMBDA r : r["Markenname"] = portal) IN
        IF portal_data # <<>>
        THEN [Artikel |-> Len(portal_data),
              Gesamtaufrufe |-> IntSum(portal_data, "Seitenaufrufe"),
              Durchschnitt |-> Mean(Column(portal_data, "Seitenaufrufe")),
              Top_Tageszeit |-> get_top_tageszeit(portal_data),
              Durchschnittl_Engagement |-> Mean(Column(portal_data, "Engagement_Rate"))]
        ELSE [Artikel |-> 0,
              Gesamtaufrufe |-> 0,
              Durchschnitt |-> Num(0),
              Top_Tageszeit |-> "Keine Daten",
              Durchschnittl_Engagement |-> Num(0)]]

Summary(rows) ==
    [Gesamtzahl_Artikel |-> Len(rows),
     Artikel_mit_Aufrufen |-> Len(SelectSeq(rows, LAMBDA r : FloatLess(Num(0), r["Seitenaufrufe"]))),
     Gesamte_Seitenaufrufe |-> IntSum(rows, "Seitenaufrufe"),
     Durchschnitt_Seitenaufrufe |-> Mean(Column(rows, "Seitenaufrufe")),
     Gesamte_Likes |-> IntSum(rows, "Likes"),
     Gesamte_Kommentare |-> IntSum(rows, "Kommentare"),
     Durchschnittl_Engagement_Rate |-> Mean(Column(rows, "Engagement_Rate"))]

\* lines 383-384: the rows of the allowed portals, in order
FilterPortale(rows) == SelectSeq(rows, LAMBDA r : r["Markenname"] \in Range(portale))

\* lines 392-403: the aggregated views and the merged table
Aggregate(seiten) == DataFrame({"docID"} \cup Range(agg_cols), groupby_sum(seiten.rows))

\* lines 405-421: the selected columns, empty numeric cells set to 0; the index
\* of the merged table is the position of the row
SelectResult(merged_rows) ==
    [i \in 1..Len(merged_rows) |->
        [c \in Range(result_columns) \cup {"index"} |->
            IF c = "index" THEN i
            ELSE IF c \in Range(agg_cols) THEN fillna(merged_rows[i][c])
            ELSE merged_rows[i][c]]]

\* lines 422-423
Enrich(rows) ==
    LET likes == ColumnBits(rows, "Likes")
        bits == IF likes = 0 THEN 0 ELSE Max(likes, ColumnBits(rows, "Kommentare"))
    IN [i \in 1..Len(rows) |-> calculate_extended_metrics(add_time_analysis(rows[i]), bits)]

\* The body of the try block up to the sort: the exception it raises, or the
\* locals it has computed.
AnalyzeBody(inhalt, seiten) ==
    LET o1 == optimize_memory_usage(inhalt)
        o2 == optimize_memory_usage(seiten)
    IN
    IF ~o1.ok THEN o1
    ELSE IF ~o2.ok THEN o2
    ELSE IF "Markenname" \notin inhalt.cols THEN KeyError(<<"Markenname">>)
    ELSE IF "Dokument-ID" \notin inhalt.cols THEN KeyError(<<"Dokument-ID">>)
    ELSE IF "docID" \notin seiten.cols THEN KeyError(<<"docID">>)
    ELSE IF Missing(agg_cols, seiten.cols) # <<>> THEN KeyError(Missing(agg_cols, seiten.cols))
    ELSE LET filtered == DataFrame(inhalt.cols, FilterPortale(inhalt.rows))
             seitenaufrufe_agg == Aggregate(seiten)
             m == efficient_merge(filtered, seitenaufrufe_agg, "Dokument-ID", "docID")
         IN
         IF ~m.ok THEN m
         ELSE LET merged_data == m.val[1] IN
              IF Missing(result_columns, merged_data.cols) # <<>>
              THEN KeyError(Missing(result_columns, merged_data.cols))
              ELSE LET selected == SelectResult(merged_data.rows) IN
                   IF ~DatesParse(selected)
                   THEN Raised(Exc("ValueError", "time data doesn't match format", <<ColDate>>, "none"))
                   ELSE Returned([filtered |-> filtered.rows,
                                  seitenaufrufe_agg |-> seitenaufrufe_agg.rows,
                                  merged_data |-> merged_data.rows,
                                  unsorted |-> Enrich(selected)])

\* The possible outcomes of analyze_msn_data: [ok, val, exc], val holding the
\* locals and the returned triple.
analyze_msn_data(inhalt, seiten) ==
    LET body == AnalyzeBody(inhalt, seiten) IN
    IF ~body.ok THEN {body}
    ELSE {Returned([locals |-> body.val[1],
                    result |-> sorted,
                    summary |-> Summary(sorted),
                    portal_stats |-> PortalStats(sorted)]) :
             sorted \in sort_values(body.val[1].unsorted)}

(***************************************************************************)
(* The tables a user may upload.                                           *)
(***************************************************************************)
Wed == "Wednesday"

\* catalog rows of the pipeline: both portals and a brand outside the
\* allow-list, an id shared by two rows, three times of day
PipelineCatRows ==
    {CatRow("HNA", "d1", Text("t"), DateDe(Wed, 7)),
     CatRow("HNA", "d2", Text("u"), DateDe(Wed, 13)),
     CatRow("24vita", "d1", Text("v"), DateDe(Wed, 23)),
     CatRow("MSN", "d2", Text("w"), DateDe(Wed, 7))}

\* one article with every other kind of date cell: the hours at the edges of
\* the bins, a date in another format, an empty date
PipelineDateRows ==
    {CatRow("HNA", "d1", Text("t"), DateDe(Wed, h)) : h \in {0, 6, 12, 18}}
    \cup {CatRow("HNA", "d1", Text("t"), DateIso(Wed, 7)), CatRow("HNA", "d1", Text("t"), DateNaN)}

\* views rows of the pipeline: two rows of d1 with different titles, a row
\* without page views but with a like, a row whose likes and comments do not
\* fit one signed byte together, and a row of an id no catalog has
PipelineViewRows ==
    {ViewRow("d1", Text("a"), 2, 1, 1, 0),
     ViewRow("d1", Text("b"), 1, 1, 0, 1),
     ViewRow("d2", Text("a"), 0, 0, 1, 0),
     ViewRow("d2", Text("b"), 2, 2, 100, 100),
     ViewRow("d3", Text("a"), 3, 1, 0, 0)}

\* the catalogs of the pipeline: up to MaxCatRows rows, a table of up to two
\* rows ending in a row of PipelineDateRows, and tables without a column
PipelineCatalogs ==
    {TableFile(CatalogCols, rows) : rows \in SeqsUpTo(PipelineCatRows, MaxCatRows)}
    \cup {TableFile(CatalogCols, Append(rows, last)) :
            rows \in SeqsUpTo(PipelineCatRows, 1), last \in PipelineDateRows}
    \cup {TableFile(CatalogCols \ {c}, <<CatRow("HNA", "d1", Text("t"), DateDe(Wed, 7))>>) :
            c \in {ColDate, "Quell-ID", "Inhaltstitel"}}

PipelineViews ==
    {TableFile(ViewCols, rows) : rows \in SeqsUpTo(PipelineViewRows, MaxViewRows)}
    \cup {TableFile(ViewCols \ {c}, <<ViewRow("d1", Text("a"), 2, 1, 1, 0)>>) :
            c \in {"Likes", "Seitenaufrufe"}}

BrokenFiles == {EmptyFile, MalformedFile, UndecodableFile}

\* the files of the session: two catalogs that differ only in the part of a
\* long title a printed table cuts off, catalogs and views tables without a
\* column, and sources that cannot be read
SessionCatalogs ==
    {TableFile(CatalogCols, <<CatRow("HNA", "d1", LongText("t", tail), DateDe(Wed, 7))>>) :
        tail \in {"a", "b"}}
    \cup {TableFile(CatalogCols \ {c}, <<CatRow("HNA", "d1", Text("t"), DateDe(Wed, 7))>>) :
            c \in {ColDate, "Inhaltstitel"}}

SessionViews ==
    {TableFile(ViewCols, <<ViewRow("d1", Text("a"), v, 1, 1, 0)>>) : v \in {0, 2}}
    \cup {TableFile(ViewCols \ {"Seitenaufrufe"}, <<ViewRow("d1", Text("a"), 2, 1, 1, 0)>>)}

SessionFiles == SessionCatalogs \cup SessionViews \cup BrokenFiles

(***************************************************************************)
(* SessionStateManager.                                                    *)
(***************************************************************************)
are_files_loaded == inhaltsbericht_loaded /\ seitenaufrufe_loaded

\* reset_data_state clearing the flags and the hash, but not the tables
reset_flags_only ==
    /\ inhaltsbericht_loaded' = FALSE
    /\ seitenaufrufe_loaded' = FALSE
    /\ UNCHANGED <<inhaltsbericht_df, seitenaufrufe_df>>
    /\ last_analysis' = None

\* reset_data_state clearing the flags and the tables, but not the hash
reset_keeps_last_analysis ==
    /\ inhaltsbericht_loaded' = FALSE
    /\ seitenaufrufe_loaded' = FALSE
    /\ inhaltsbericht_df' = None
    /\ seitenaufrufe_df' = None
    /\ UNCHANGED last_analysis

\* reset_data_state
reset_data_state ==
    /\ inhaltsbericht_loaded' = FALSE
    /\ seitenaufrufe_loaded' = FALSE
    /\ inhaltsbericht_df' = None
    /\ seitenaufrufe_df' = None
    /\ last_analysis' = None

\* initialize_state: the first run of a session sets the flags and tables
initialize_state ==
    /\ initialized' = TRUE
    /\ IF ~initialized
       THEN /\ inhaltsbericht_loaded' = FALSE
            /\ seitenaufrufe_loaded' = FALSE
            /\ inhaltsbericht_df' = None
            /\ seitenaufrufe_df' = None
            /\ last_analysis' = None
       ELSE UNCHANGED session

(***************************************************************************)
(* The script run main(), in the order of its statements.                  *)
(***************************************************************************)
Init ==
    /\ initialized = FALSE
    /\ inhaltsbericht_loaded = FALSE
    /\ seitenaufrufe_loaded = FALSE
    /\ inhaltsbericht_df = None
    /\ seitenaufrufe_df = None
    /\ last_analysis = None
    /\ result = None
    /\ summary = None
    /\ portal_stats = None
    /\ pc = "idle"
    /\ panel_rendered = FALSE
    /\ shown = <<>>
    /\ load_calls = <<>>
    /\ analysis_call = None
    /\ dashboard = None
    /\ previous_pair = None

\* A user interaction starts a run: initialize_state (line 591).  The page of
\* the previous run is cleared.
MainStart ==
    /\ pc = "idle"
    /\ initialize_state
    /\ shown' = <<>>
    /\ load_calls' = <<>>
    /\ analysis_call' = None
    /\ dashboard' = None
    /\ pc' = "inhalt"
    /\ UNCHANGED <<cache, panel_rendered, previous_pair>>

\* upload_files, lines 274-289: the uploader of the Inhaltsbericht, holding a
\* file of Files or none
UploadInhaltsbericht(Files) ==
    /\ pc = "inhalt"
    /\ pc' = "seiten"
    /\ IF ~inhaltsbericht_loaded
       THEN \E inhaltsbericht_file \in {None} \cup {Some(f) : f \in Files} :
              IF inhaltsbericht_file # None
              THEN LET out == load_data(inhaltsbericht_file) IN
                   /\ load_calls' = Append(load_calls, [arg |-> inhaltsbericht_file, out |-> out])
                   /\ IF out.ok
                      THEN /\ inhaltsbericht_loaded' = TRUE
                           /\ inhaltsbericht_df' = out.val
                           /\ shown' = shown
                      ELSE /\ shown' = Append(shown, handle_error(out.exc))
                           /\ UNCHANGED <<inhaltsbericht_loaded, inhaltsbericht_df>>
              ELSE UNCHANGED <<inhaltsbericht_loaded, inhaltsbericht_df, shown, load_calls>>
       ELSE UNCHANGED <<inhaltsbericht_loaded, inhaltsbericht_df, shown, load_calls>>
    /\ UNCHANGED <<initialized, seitenaufrufe_loaded, seitenaufrufe_df, last_analysis,
                   cache, panel_rendered, analysis_call, dashboard, previous_pair>>

\* upload_files, lines 291-306: the uploader of the Seitenaufrufe
UploadSeitenaufrufe(Files) ==
    /\ pc = "seiten"
    /\ pc' = "panel"
    /\ IF ~seitenaufrufe_loaded
       THEN \E seitenaufrufe_file \in {None} \cup {Some(f) : f \in Files} :
              IF seitenaufrufe_file # None
              THEN LET out == load_data(seitenaufrufe_file) IN
                   /\ load_calls' = Append(load_calls, [arg |-> seitenaufrufe_file, out |-> out])
                   /\ IF out.ok
                      THEN /\ seitenaufrufe_loaded' = TRUE
                           /\ seitenaufrufe_df' = out.val
                           /\ shown' = shown
                      ELSE /\ shown' = Append(shown, handle_error(out.exc))
                           /\ UNCHANGED <<seitenaufrufe_loaded, seitenaufrufe_df>>
              ELSE UNCHANGED <<seitenaufrufe_loaded, seitenaufrufe_df, shown, load_calls>>
       ELSE UNCHANGED <<seitenaufrufe_loaded, seitenaufrufe_df, shown, load_calls>>
    /\ UNCHANGED <<initialized, inhaltsbericht_loaded, inhaltsbericht_df, last_analysis,
                   cache, panel_rendered, analysis_call, dashboard, previous_pair>>

\* upload_files, lines 308-326, no reload button pressed: the panel of the loaded
\* files is drawn when both are loaded, and the tables of the session are returned
LoadedFilesPanel ==
    /\ pc = "panel"
    /\ pc' = "analyse"
    /\ panel_rendered' = are_files_loaded
    /\ UNCHANGED <<initialized, session, cache, shown, load_calls, analysis_call, dashboard,
                   previous_pair>>

\* upload_files, lines 312-314 and 318-320: one of the two reload buttons, drawn
\* by the previous run, was pressed; reset_data_state and st.experimental_rerun.
\* The run ends before the panel is drawn again, so no button can be pressed
\* in the run that follows.
ReloadButton ==
    /\ pc = "panel"
    /\ are_files_loaded
    /\ panel_rendered
    /\ \E key \in {"reload_inhalt", "reload_seiten"} : reset_data_state
    /\ previous_pair' = Some(<<inhaltsbericht_df[1], seitenaufrufe_df[1]>>)
    /\ panel_rendered' = FALSE
    /\ pc' = "idle"
    /\ UNCHANGED <<initialized, cache, shown, load_calls, analysis_call, dashboard>>

\* str(df): a printed table shows a long string up to the column width
str(df) ==
    [cols |-> df.cols,
     rows |-> [i \in 1..Len(df.rows) |->
                 [c \in DOMAIN df.rows[i] |->
                    IF c \in {"Inhaltstitel", "Titel"}
                    THEN [df.rows[i][c] EXCEPT !.tail = IF @ = "" THEN "" ELSE "..."]
                    ELSE df.rows[i][c]]]]

\* hash(str(inhaltsbericht_df) + str(seitenaufrufe_df)), line 603; two different
\* strings are taken to have different hashes
DataHash(inhalt, seiten) == <<str(inhalt), str(seiten)>>

\* line 604 without the comparison: the analysis is run in every run
data_changed_always(current_data_hash) == TRUE

\* line 604: the stored hash differs from the hash of the loaded pair
data_changed(current_data_hash) == last_analysis # Some(current_data_hash)

\* lines 605-612 with the hash stored before the analysis is run
analysis_failed_keeps_hash(exc) ==
    /\ shown' = shown \o <<handle_error(exc), handle_error(exc)>>
    /\ last_analysis' = Some(DataHash(inhaltsbericht_df[1], seitenaufrufe_df[1]))
    /\ UNCHANGED <<cache, dashboard>>

\* lines 620-621: the exception leaves the try block before anything is stored
\* and before create_dashboard; handle_error was called at line 459 already
analysis_failed(exc) ==
    /\ shown' = shown \o <<handle_error(exc), handle_error(exc)>>
    /\ UNCHANGED <<last_analysis, cache, dashboard>>

\* main, lines 599-623
Analyse ==
    /\ pc = "analyse"
    /\ pc' = "idle"
    /\ IF are_files_loaded
       THEN LET current_data_hash == DataHash(inhaltsbericht_df[1], seitenaufrufe_df[1]) IN
            IF data_changed(current_data_hash)
            THEN \E out \in analyze_msn_data(inhaltsbericht_df[1], seitenaufrufe_df[1]) :
                   /\ analysis_call' = Some([inhalt |-> inhaltsbericht_df[1],
                                             seiten |-> seitenaufrufe_df[1],
                                             out |-> out])
                   /\ IF out.ok
                      THEN /\ last_analysis' = Some(current_data_hash)
                           /\ result' = Some(out.val[1].result)
                           /\ summary' = Some(out.val[1].summary)
                           /\ portal_stats' = Some(out.val[1].portal_stats)
                           /\ dashboard' = Some([result |-> result', summary |-> summary',
                                                 portal_stats |-> portal_stats'])
                           /\ shown' = shown
                      ELSE analysis_failed(out.exc)
            ELSE /\ dashboard' = Some([result |-> result, summary |-> summary,
                                       portal_stats |-> portal_stats])
                 /\ UNCHANGED <<last_analysis, cache, shown, analysis_call>>
       ELSE UNCHANGED <<last_analysis, cache, shown, analysis_call, dashboard>>
    /\ UNCHANGED <<initialized, inhaltsbericht_loaded, seitenaufrufe_loaded,
                   inhaltsbericht_df, seitenaufrufe_df, panel_rendered, load_calls,
                   previous_pair>>

\* The session: any file in either uploader, reload buttons.
Next ==
    \/ MainStart
    \/ UploadInhaltsbericht(SessionFiles)
    \/ UploadSeitenaufrufe(SessionFiles)
    \/ LoadedFilesPanel
    \/ ReloadButton
    \/ Analyse

Spec == Init /\ [][Next]_vars

\* The pipeline: one upload of a catalog and of a views table, then the analysis.
NextPipeline ==
    \/ MainStart
    \/ UploadInhaltsbericht(PipelineCatalogs)
    \/ UploadSeitenaufrufe(PipelineViews)
    \/ LoadedFilesPanel
    \/ Analyse

SpecPipeline == Init /\ [][NextPipeline]_vars

\* load_data alone: a call with any file of the session, or with None.
CallLoadData ==
    /\ Len(load_calls) < MaxLoadCalls
    /\ \E uploaded_file \in {None} \cup {Some(f) : f \in SessionFiles \cup PipelineCatalogs \cup PipelineViews} :
         load_calls' = Append(load_calls, [arg |-> uploaded_file, out |-> load_data(uploaded_file)])
    /\ UNCHANGED <<initialized, session, cache, pc, panel_rendered, shown, analysis_call, dashboard,
                   previous_pair>>

SpecLoad == Init /\ [][CallLoadData]_vars

(***************************************************************************)
(* Properties.                                                             *)
(***************************************************************************)
Called == analysis_call # None
Call == analysis_call[1]
Succeeded == Called /\ Call.out.ok
Locals == Call.out.val[1].locals
Res == Call.out.val[1].result

Allowed(rows) == SelectSeq(rows, LAMBDA r : r["Markenname"] \in {"HNA", "24vita"})

\* the two tables have every column the pipeline reads and at least one row
\* each, and the catalog has a row of an allowed portal
CompleteTables(call) ==
    /\ call.inhalt.cols = CatalogCols
    /\ call.seiten.cols = ViewCols
    /\ call.seiten.rows # <<>>
    /\ Allowed(call.inhalt.rows) # <<>>

DatesInFormat(call) ==
    \A i \in 1..Len(Allowed(call.inhalt.rows)) : Allowed(call.inhalt.rows)[i][ColDate].fmt # "iso"

UniqueIds(call) ==
    \A i, j \in 1..Len(Allowed(call.inhalt.rows)) :
        Allowed(call.inhalt.rows)[i]["Dokument-ID"] = Allowed(call.inhalt.rows)[j]["Dokument-ID"] => i = j

\* the i-th allowed catalog row is in the result exactly once
AppearsOnce(rows, i) ==
    Cardinality({k \in 1..Len(Res) :
        /\ Res[k]["index"] = i
        /\ \A c \in CatalogCols : Res[k][c] = rows[i][c]}) = 1

\* the four numeric cells of result row r are 0
AllZero(r) == \A c \in {"Seitenaufrufe", "Eindeutige Benutzer", "Likes", "Kommentare"} : r[c] = Num(0)

HasViews(call, id) == \E i \in 1..Len(call.seiten.rows) : call.seiten.rows[i]["docID"] = id

\* C1: for every catalog and views table passed to analyze_msn_data, two rows of
\* one Dokument-ID included, every catalog row of an allowed portal is in the
\* result exactly once, and a row whose Dokument-ID is no docID of the views
\* table has 0 in its four numeric cells.
C1_EveryRowOnce ==
    (Called /\ CompleteTables(Call) /\ DatesInFormat(Call)) =>
        /\ Call.out.ok
        /\ Len(Res) = Len(Allowed(Call.inhalt.rows))
        /\ \A i \in 1..Len(Allowed(Call.inhalt.rows)) : AppearsOnce(Allowed(Call.inhalt.rows), i)
        /\ \A k \in 1..Len(Res) : ~HasViews(Call, Res[k]["Dokument-ID"]) => AllZero(Res[k])

\* the sum of column c over the views rows of docID id
SumOfGroup(rows, id, c) ==
    SumSeq([i \in 1..Len(rows) |-> IF rows[i]["docID"] = id THEN rows[i][c] ELSE 0])

GroupRows(agg, id) == {n \in 1..Len(agg) : agg[n]["docID"] = id}

FirstOfGroup(rows, id) ==
    rows[CHOOSE i \in 1..Len(rows) :
            /\ rows[i]["docID"] = id
            /\ \A j \in 1..(i - 1) : rows[j]["docID"] # id]

C3_ZeroViewsZeroRate ==
    Succeeded =>
        \A k \in 1..Len(Res) :
            /\ IsFinite(Res[k]["Engagement_Rate"])
            /\ IsFinite(Res[k]["Unique_Visitor_Rate"])
            /\ FloatIsZero(Res[k]["Seitenaufrufe"]) =>
                 /\ FloatIsZero(Res[k]["Engagement_Rate"])
                 /\ FloatIsZero(Res[k]["Unique_Visitor_Rate"])

\* the bucket of hour h with the bins [0, 6), [6, 12), [12, 18), [18, 24)
Tageszeit(h) ==
    IF h < 6 THEN "Nacht" ELSE IF h < 12 THEN "Morgen" ELSE IF h < 18 THEN "Mittag" ELSE "Abend"

\* C4: a row with hour h has the bucket Nacht for 0 <= h < 6, Morgen for
\* 6 <= h < 12, Mittag for 12 <= h < 18, Abend for 18 <= h < 24, and no row
\* with an hour is left without a bucket.
C4_Buckets ==
    Succeeded =>
        \A k \in 1..Len(Res) :
            IsFinite(Res[k]["Stunde"]) =>
                Res[k]["Tageszeit"] = Tageszeit(Res[k]["Stunde"].num)

Descending(rows) ==
    \A i, j \in 1..Len(rows) :
        i < j => ~FloatLess(rows[i]["Seitenaufrufe"], rows[j]["Seitenaufrufe"])

C6_BadDateTolerated ==
    (Called /\ CompleteTables(Call) /\ UniqueIds(Call) /\ ~DatesInFormat(Call)) =>
        /\ Call.out.ok
        /\ \A k \in 1..Len(Res) :
            Res[k][ColDate].fmt = "iso" =>
                /\ IsNa(Res[k]["Stunde"])
                /\ Res[k]["Tageszeit"] = "NaN"
        /\ Call.out.val[1].summary.Gesamtzahl_Artikel = Len(Allowed(Call.inhalt.rows))
        /\ \A p \in {"HNA", "24vita"} :
            Call.out.val[1].portal_stats[p].Artikel =
                Len(SelectSeq(Call.inhalt.rows, LAMBDA r : r["Markenname"] = p))

\* C9: a catalog without the column Erstellungs-/Aktualisierungsdatum makes
\* the analysis fail with a DataValidationError.
C9_MissingDateColumn ==
    (Called /\ ColDate \notin Call.inhalt.cols) =>
        /\ ~Call.out.ok
        /\ Call.out.exc.type = "DataValidationError"

(***************************************************************************)
(* Properties of load_data and handle_error.                               *)
(***************************************************************************)
\* the required columns a parsed table lacks, for the kind load_data takes it for
MissingRequired(file) ==
    IF "Markenname" \in file.cols
    THEN {"Dokument-ID", "Inhaltstitel"} \ file.cols
    ELSE {"docID", "Seitenaufrufe"} \ file.cols

\* C7: when a required column of the table's kind is missing, the error that
\* reaches the caller of load_data is a DataValidationError whose message
\* names the missing columns.
C7_ValidationError ==
    \A n \in 1..Len(load_calls) :
        LET file == load_calls[n].arg[1]
            out == load_calls[n].out
        IN (file.kind = "table" /\ MissingRequired(file) # {}) =>
              /\ ~out.ok
              /\ out.exc.type = "DataValidationError"
              /\ Range(out.exc.cols) = MissingRequired(file)

\* C8: load_data fails with a FileLoadError when no file is given, when the
\* source is empty and when the source is no delimited table.
C8_FileLoadError ==
    \A n \in 1..Len(load_calls) :
        LET arg == load_calls[n].arg
            out == load_calls[n].out
        IN (arg = None \/ arg[1].kind \in {"empty", "malformed"}) =>
              /\ ~out.ok
              /\ out.exc.type = "FileLoadError"

\* the conditions of the file-load and validation kind, by the exception the
\* failure started with
NamedCause(e) ==
    \/ e.type \in {"FileLoadError", "DataValidationError"}
    \/ e.context \in {"FileLoadError", "DataValidationError", "EmptyDataError", "ParserError"}

\* C10: an error passed to handle_error whose cause is a file-load condition or
\* a validation condition is shown as the short message, without stack trace;
\* the stack trace is shown for every other cause.
C10_ShortMessage ==
    \A n \in 1..Len(shown) : shown[n].trace = ~NamedCause(shown[n].error)

(***************************************************************************)
(* Properties of the session: change detection, failure, flags, dashboard. *)
(***************************************************************************)
\* the step of main from the check of are_files_loaded (line 599) to its end
AnalyseStep == pc = "analyse" /\ pc' = "idle"

\* the hash of the pair of tables the session holds
CurrentHash == DataHash(inhaltsbericht_df[1], seitenaufrufe_df[1])

\* what create_dashboard receives when it is given the stored values
Stored == [result |-> result, summary |-> summary, portal_stats |-> portal_stats]

\* C11: in a run of main with both files loaded, analyze_msn_data is executed
\* if and only if the stored last_analysis differs from the hash of the loaded
\* pair of tables; when they are equal the analysis is skipped, nothing
\* stored changes, and create_dashboard receives the stored result, summary
\* and portal_stats.
C11_RunIffChanged ==
    [][(AnalyseStep /\ are_files_loaded) =>
          /\ (analysis_call' # None) <=> (last_analysis # Some(CurrentHash))
          /\ (last_analysis = Some(CurrentHash)) =>
                /\ UNCHANGED <<last_analysis, cache>>
                /\ dashboard' = Some(Stored)]_vars

\* a run ended in which the analysis was skipped and the dashboard drawn from
\* the values stored by an earlier run
C11_Witness ==
    /\ pc = "idle"
    /\ are_files_loaded
    /\ analysis_call = None
    /\ last_analysis = Some(CurrentHash)
    /\ dashboard = Some(Stored)

\* the run's call of analyze_msn_data has failed
FailedCall(call) == call # None /\ ~call[1].out.ok

\* C12: when analyze_msn_data fails during a run of main, last_analysis,
\* result, summary and portal_stats of the session state are left as they
\* were before the run, create_dashboard is not called in that run, and an
\* error is reported to the user.
C12_FailureKeepsNothing ==
    [][(AnalyseStep /\ FailedCall(analysis_call')) =>
          /\ UNCHANGED <<last_analysis, result, summary, portal_stats>>
          /\ dashboard' = None
          /\ Len(shown') > Len(shown)
          /\ shown'[Len(shown')].error = analysis_call'[1].out.exc]_vars

\* a run ended in which the analysis failed although an earlier run had stored
\* a result: the stored values are those of the earlier pair of tables
C12_Witness ==
    /\ pc = "idle"
    /\ FailedCall(analysis_call)
    /\ result # None
    /\ last_analysis = None
    /\ dashboard = None
    /\ shown # <<>>

\* the flags of the session state say what tables it holds
FlagsMatchTables ==
    /\ inhaltsbericht_loaded <=> (inhaltsbericht_df # None)
    /\ seitenaufrufe_loaded <=> (seitenaufrufe_df # None)

\* a call of load_data was made in this step and it failed
FailedLoad ==
    /\ Len(load_calls') = Len(load_calls) + 1
    /\ ~load_calls'[Len(load_calls')].out.ok

\* C13: after initialize_state and any sequence of successful uploads, failed
\* uploads and reload-button presses, inhaltsbericht_loaded is true exactly
\* when inhaltsbericht_df is not None and seitenaufrufe_loaded exactly when
\* seitenaufrufe_df is not None; are_files_loaded implies that both tables
\* are present; a failed load_data leaves both flags and both tables unchanged.
C13_FlagsAndTables ==
    /\ [](FlagsMatchTables
          /\ (are_files_loaded => (inhaltsbericht_df # None /\ seitenaufrufe_df # None)))
    /\ [][FailedLoad => UNCHANGED <<inhaltsbericht_loaded, seitenaufrufe_loaded,
                                    inhaltsbericht_df, seitenaufrufe_df>>]_vars

\* after a successful analysis and a press of a reload button, the catalog was
\* loaded again and the upload of the views table has just failed
C13_Witness ==
    /\ pc = "panel"
    /\ previous_pair # None
    /\ inhaltsbericht_loaded
    /\ inhaltsbericht_df # None
    /\ ~seitenaufrufe_loaded
    /\ seitenaufrufe_df = None
    /\ load_calls # <<>>
    /\ ~load_calls[Len(load_calls)].out.ok

\* what create_dashboard can receive when the analysis of the pair succeeds
Computed(inhalt, seiten) ==
    {[result |-> Some(out.val[1].result), summary |-> Some(out.val[1].summary),
      portal_stats |-> Some(out.val[1].portal_stats)] :
        out \in {o \in analyze_msn_data(inhalt, seiten) : o.ok}}

\* C14: whenever create_dashboard is called, its result, summary and
\* portal_stats are those analyze_msn_data computes from the pair of tables
\* the session state holds, never those of a pair loaded before, two pairs of
\* one change-detection hash included.
C14_DashboardOfCurrentPair ==
    dashboard # None =>
        /\ are_files_loaded
        /\ dashboard[1] \in Computed(inhaltsbericht_df[1], seitenaufrufe_df[1])

\* the dashboard is drawn for a pair of tables loaded after a reload, in place
\* of another pair with the same hash and another result
C14_Witness ==
    /\ dashboard # None
    /\ are_files_loaded
    /\ previous_pair # None
    /\ previous_pair[1] # <<inhaltsbericht_df[1], seitenaufrufe_df[1]>>
    /\ DataHash(previous_pair[1][1], previous_pair[1][2]) = CurrentHash
    /\ Computed(previous_pair[1][1], previous_pair[1][2]) # {}
    /\ dashboard[1] \notin Computed(previous_pair[1][1], previous_pair[1][2])

====
